---- MODULE Spec2Model ----
(***************************************************************************)
(* Model of the review scraper in src/daraz.py: the orchestrator           *)
(* scrape_range, the navigation controller safe_get, the rating gate       *)
(* product_has_reviews, the review traversal iterate_all_reviews and the   *)
(* CSV sink write_reviews_to_csv.  The page driver (selenium) is the       *)
(* environment: every call into it is a nondeterministic choice among the  *)
(* outcomes the call can have (value, TimeoutException,                    *)
(* NoSuchElementException, StaleElementReferenceException,                 *)
(* ElementClickInterceptedException, other WebDriverException).            *)
(***************************************************************************)
EXTENDS Integers, Sequences, FiniteSets, TLC

\* ---------------------------------------------------------------- bounds
MaxPage == 2
\* largest end_page of a run (listing pages start_page..end_page)
MaxCards == 1
\* most cards extract_listing_cards returns for one listing page
MaxReviews == 2
\* most review items one product has
MaxItems == 1
\* most review records extract_page_items returns for one review page
MaxRevPages == 2
\* review pages after which a re-rendered page yields no new record
MaxTries == 4
\* largest tries argument of safe_get when it is checked on its own

\* ------------------------------------------------------- program constants
StartPage == 1
Tries == 3
BackoffFactor == 2
BackoffCap == 4

\* the header line of the file (lines 456-476), as a line that is no data row
HEADER == [header |-> TRUE]
NoExc == "none"
OSError == "OSError"
StaleExc == "StaleElementReferenceException"
DriverExc == "WebDriverException"

\* ---------------------------------------------------------------- state
VARIABLES
  pc,          \* position of the control flow of scrape_range / safe_get
  exc,         \* exception in flight (NoExc when none)
  driver,      \* "none" | "open" | "quit"
  quitCalls,   \* number of driver.quit() calls
  end_page,    \* run parameter
  page,        \* loop variable of the listing loop
  cards,       \* result of extract_listing_cards for the current page
  idx,         \* loop variable of the card loop (1-based)
  sg,          \* locals and observations of the running safe_get call
  reviews,     \* the list accumulated by iterate_all_reviews
  rp,          \* number of review pages extracted in the current traversal
  pageLog,     \* the page results of the current traversal, in order
  file,        \* contents of out_csv, one element per line
  headerWrites,\* number of header rows written in this run
  sinkLog,     \* rows whose writerow() call has completed, in order
  has_reviews, \* first component of product_has_reviews' result
  total_rating,\* second component (-1 stands for None)
  arg,         \* the input of an extraction function checked on its own
  res          \* its result

vars == <<pc, exc, driver, quitCalls, end_page, page, cards, idx, sg,
          reviews, rp, pageLog, file, headerWrites, sinkLog, has_reviews,
          total_rating, arg, res>>

ctlVars == <<end_page, page, cards, idx>>
rvVars == <<reviews, rp, pageLog>>
sinkVars == <<file, headerWrites, sinkLog>>
gateVars == <<has_reviews, total_rating>>
drvVars == <<driver, quitCalls>>
fnVars == <<arg, res>>

\* arg and res while no extraction function is checked on its own
NoArg == [kind |-> "none"]
NoRes == [done |-> FALSE]

\* -------------------------------------------------------------- helpers
Min(a, b) == IF a < b THEN a ELSE b

RECURSIVE Flatten(_)
Flatten(ss) == IF ss = <<>> THEN <<>> ELSE Head(ss) \o Flatten(Tail(ss))

IsPrefix(s, t) == Len(s) <= Len(t) /\ SubSeq(t, 1, Len(s)) = s

Range(s) == {s[i] : i \in 1..Len(s)}

Visit == <<page, idx>>

\* an old run's data row found in out_csv before the run starts
OldRow == [visit |-> <<0, 0>>, n |-> 0]

None == -1

\* ------------------------------------------------------------------ sink
\* write_reviews_to_csv: mode "w" truncates and writes the header, mode "a"
\* keeps the contents; then one line per row.
WriteCsvAlwaysTruncate(f, rows, append) == <<HEADER>> \o rows

WriteCsv(f, rows, append) ==
  IF append THEN f \o rows ELSE <<HEADER>> \o rows

\* line 479: write_reviews_to_csv(out_csv, [], headers, append=False); the
\* first definition passes append=True
InitialWriteAppend(f) == WriteCsv(f, <<>>, TRUE)

InitialWrite(f) == WriteCsv(f, <<>>, FALSE)

\* ------------------------------------------------------------ safe_get
\* navs counts driver.get calls, navTimeouts those that raised
\* TimeoutException, stops the window.stop() calls, timeouts the probe
\* timeouts
SgIdle == [target |-> "none", url |-> <<>>, ready |-> FALSE, tries |-> 0,
           attempt |-> 0, navs |-> 0, navTimeouts |-> 0, stops |-> 0,
           timeouts |-> 0, sleeps |-> <<>>, result |-> "none"]

SgCall(target, url, ready, tries) ==
  [target |-> target, url |-> url, ready |-> ready, tries |-> tries,
   attempt |-> 1, navs |-> 0, navTimeouts |-> 0, stops |-> 0,
   timeouts |-> 0, sleeps |-> <<>>, result |-> "none"]

\* lines 84-88: "except TimeoutException" catches the load timeout only; any
\* other exception of driver.get leaves safe_get
GetRaisesOnTimeout(out) == out # "ok"

GetRaises(out) == out = "crash"

\* line 100: if attempt == tries: return False
LastAttemptOffByOne(attempt, tries) == attempt + 1 >= tries

LastAttempt(attempt, tries) == attempt = tries

\* line 102: time.sleep(min(2 * attempt, 4)); the first definition has no cap
BackoffUncapped(attempt) == BackoffFactor * attempt

Backoff(attempt) == Min(BackoffFactor * attempt, BackoffCap)

\* lines 83-91: loop head, driver.get(url), the no-probe return
SgGet ==
  /\ pc = "sg_get"
  /\ IF sg.attempt > sg.tries
       THEN \* range exhausted without entering the body (tries < 1), line 103
            /\ sg' = [sg EXCEPT !.result = "false"]
            /\ pc' = "sg_ret"
       ELSE \E out \in {"ok", "timeout", "crash"} :
            LET s0 == [sg EXCEPT !.navs = @ + 1,
                                 !.navTimeouts = IF out = "timeout"
                                                   THEN @ + 1 ELSE @]
            IN
            IF GetRaises(out)
                 THEN /\ sg' = [s0 EXCEPT !.result = "raise"]
                      /\ pc' = "sg_ret"
                 ELSE LET s1 == [s0 EXCEPT !.stops = IF out = "timeout"
                                                       THEN @ + 1 ELSE @]
                      IN IF ~sg.ready
                           THEN /\ sg' = [s1 EXCEPT !.result = "true"]
                                /\ pc' = "sg_ret"
                           ELSE /\ sg' = s1
                                /\ pc' = "sg_probe"
  /\ UNCHANGED <<exc, drvVars, ctlVars, rvVars, sinkVars, gateVars>>
  /\ UNCHANGED fnVars

\* lines 93-101: wait_css(ready_css); on timeout window.stop() and the
\* last-attempt test
SgProbe ==
  /\ pc = "sg_probe"
  /\ \E appears \in BOOLEAN :
       IF appears
         THEN /\ sg' = [sg EXCEPT !.result = "true"]
              /\ pc' = "sg_ret"
         ELSE LET s1 == [sg EXCEPT !.timeouts = @ + 1, !.stops = @ + 1]
              IN IF LastAttempt(sg.attempt, sg.tries)
                   THEN /\ sg' = [s1 EXCEPT !.result = "false"]
                        /\ pc' = "sg_ret"
                   ELSE /\ sg' = s1
                        /\ pc' = "sg_sleep"
  /\ UNCHANGED <<exc, drvVars, ctlVars, rvVars, sinkVars, gateVars>>
  /\ UNCHANGED fnVars

\* line 102 and the next iteration of the for loop
SgSleep ==
  /\ pc = "sg_sleep"
  /\ sg' = [sg EXCEPT !.sleeps = Append(@, Backoff(sg.attempt)),
                      !.attempt = @ + 1]
  /\ pc' = "sg_get"
  /\ UNCHANGED <<exc, drvVars, ctlVars, rvVars, sinkVars, gateVars>>
  /\ UNCHANGED fnVars


\* ------------------------------------------------------------ listing
\* A URL or link target is the sequence of its pieces: an optional scheme
\* piece ("https:"), "/" pieces, host and path-segment pieces.  The empty
\* string is the empty sequence, "//host/p" starts with two "/" pieces, "/p"
\* with one, "p" with none.
Schemes == {"https:", "http:"}

EmptyUrl == <<>>
BaseUrl == <<"https:", "/", "/", "www.daraz.com.bd", "/">>

StartsWith(s, prefix) ==
  Len(s) >= Len(prefix) /\ SubSeq(s, 1, Len(prefix)) = prefix

\* normalize_url, lines 125-130
normalize_url(href) ==
  IF href = EmptyUrl THEN EmptyUrl
  ELSE IF StartsWith(href, <<"/", "/">>) THEN <<"https:">> \o href
  ELSE href

\* the path of an absolute URL up to and including its last "/"
BaseDir(base) ==
  LET slashes == {i \in 5..Len(base) : base[i] = "/"}
  IN IF slashes = {} THEN <<"/">>
     ELSE SubSeq(base, 5, CHOOSE i \in slashes : \A j \in slashes : j <= i)

\* urllib.parse.urljoin(base, u), line 163, with "u" in place of the result
urljoinIdentity(base, u) == u

\* urllib.parse.urljoin(base, u), line 163: u itself when it has a scheme,
\* base when u is empty, else u resolved against base
urljoin(base, u) ==
  IF u = EmptyUrl THEN base
  ELSE IF u[1] \in Schemes THEN u
  ELSE IF StartsWith(u, <<"/", "/">>) THEN <<base[1]>> \o u
  ELSE IF u[1] = "/" THEN SubSeq(base, 1, 4) \o u
  ELSE SubSeq(base, 1, 4) \o BaseDir(base) \o u

\* lines 160-163: the product_url of a card whose anchor has link target href
CardUrlNoJoin(href) == normalize_url(href)

CardUrl(href) == urljoin(BaseUrl, normalize_url(href))

\* line 483: f"https://www.daraz.com.bd/all-products/?page={page}"
ListingUrl(p) ==
  <<"https:", "/", "/", "www.daraz.com.bd", "/", "all-products", "/",
    "?page=", p>>

\* link targets of the cards of the listing pages of a run
CardHrefs == {<<"/", "p">>}

\* extract_listing_cards: the records of the cards that raised no error
\* (none when the container marker timed out), lines 144-208
CardLists ==
  UNION {[1..n -> {[product_url |-> CardUrl(h)] : h \in CardHrefs}] : n \in 0..MaxCards}

\* ---------------------------------------------------------- rating gate
\* the text of a node: whether the no-ratings marker occurs in it and the
\* first run of digits in it (None without digits); Absent when the node was
\* not found
Text(marker, digits) == [present |-> TRUE, marker |-> marker, digits |-> digits]

Absent == [present |-> FALSE, marker |-> FALSE, digits |-> None]

\* _int_from_text, lines 48-52: the first run of digits, None without digits
int_from_text(t) == t.digits

\* product_has_reviews, lines 211-232: primary is the text of the summary
\* link (Absent when wait_css timed out), badge the text of span.qzqFw
\* (Absent when find_element raised NoSuchElementException); the first
\* definition leaves out the fallback of lines 225-232
product_has_reviewsNoBadge(primary, badge) ==
  IF primary.present /\ ~primary.marker
    THEN <<TRUE, int_from_text(primary)>>
    ELSE <<FALSE, None>>

product_has_reviews(primary, badge) ==
  IF primary.present
    THEN IF primary.marker THEN <<FALSE, None>>
         ELSE <<TRUE, int_from_text(primary)>>
    ELSE IF badge.present
           THEN <<int_from_text(badge) # None /\ int_from_text(badge) > 0,
                  int_from_text(badge)>>
           ELSE <<FALSE, None>>

\* texts of the summary link and of the badge on the product pages of a run
PrimaryTexts == {Absent, Text(TRUE, None), Text(FALSE, 8)}
BadgeTexts == {Absent, Text(FALSE, 0), Text(FALSE, 8)}

\* -------------------------------------------------------- orchestrator
\* line 485 / 501: if not safe_get(...): continue
SkipOnLoadNever(ok) == FALSE

SkipOnLoad(ok) == ~ok

\* line 497: if not product_url: continue
EmptyUrlSkipsNever(url) == FALSE

EmptyUrlSkips(url) == url = EmptyUrl

\* line 508: if not has_reviews: continue
GateSkipsNever(has) == FALSE

GateSkips(has) == ~has

\* lines 522-548: one row per review, carrying the product's source URL
Row(rv, card) ==
  [visit |-> rv.visit, n |-> rv.n, source |-> card.product_url]

AssembleRowsDropLast(rvs, card) ==
  [i \in 1..(Len(rvs) - 1) |-> Row(rvs[i], card)]

AssembleRows(rvs, card) == [i \in 1..Len(rvs) |-> Row(rvs[i], card)]

\* what an OSError raised by the append at line 550 does: nothing catches
\* it, so it leaves the loops for the finally clause
OnSinkFailureSwallowed == [pc |-> "card_loop", exc |-> NoExc]

OnSinkFailure == [pc |-> "finally", exc |-> OSError]

\* line 516: if not reviews: continue
NoReviewsNever(rvs) == FALSE

NoReviews(rvs) == rvs = <<>>

\* list.extend, lines 413 and 435
ExtendReplaces(acc, pageItems) == pageItems

Extend(acc, pageItems) == acc \o pageItems

\* the records extract_page_items returns for the next review page of the
\* current product when n of its items raise no stale-reference error; a
\* record is identified by its product and its position among the product's
\* reviews (acc holds the records of the earlier pages)
PageItems(acc, n) ==
  [i \in 1..n |-> [visit |-> Visit, n |-> Len(acc) + i]]

\* numbers of records the next page can yield
PageSizes(acc) == 0..Min(MaxItems, MaxReviews - Len(acc))

Init ==
  /\ pc = "start"
  /\ exc = NoExc
  /\ driver = "none"
  /\ quitCalls = 0
  /\ end_page \in 0..MaxPage
  /\ page = StartPage
  /\ cards = <<>>
  /\ idx = 0
  /\ sg = SgIdle
  /\ reviews = <<>>
  /\ rp = 0
  /\ pageLog = <<>>
  /\ file \in {<<>>, <<HEADER, OldRow>>}
  /\ headerWrites = 0
  /\ sinkLog = <<>>
  /\ has_reviews = FALSE
  /\ total_rating = None
  /\ arg = NoArg
  /\ res = NoRes

\* lines 453-454: create_logged_in_firefox(); no driver when it raises
CreateDriver ==
  /\ pc = "start"
  /\ \E ok \in BOOLEAN :
       IF ok THEN /\ driver' = "open"
                  /\ pc' = "header"
                  /\ exc' = exc
             ELSE /\ driver' = driver
                  /\ pc' = "done"
                  /\ exc' = DriverExc
  /\ UNCHANGED <<quitCalls, ctlVars, sg, rvVars, sinkVars, gateVars>>
  /\ UNCHANGED fnVars

\* line 479: write_reviews_to_csv(out_csv, [], headers, append=False), outside
\* the try statement of line 481.  When it raises, open() failed (file
\* untouched) or the file was truncated and the header not written.
InitHeader ==
  /\ pc = "header"
  /\ \E ok \in BOOLEAN :
       IF ok THEN /\ file' = InitialWrite(file)
                  /\ headerWrites' = headerWrites + 1
                  /\ pc' = "page_loop"
                  /\ exc' = exc
             ELSE /\ file' \in {file, <<>>}
                  /\ headerWrites' = headerWrites
                  /\ pc' = "done"
                  /\ exc' = OSError
  /\ UNCHANGED <<drvVars, ctlVars, sg, rvVars, sinkLog, gateVars>>
  /\ UNCHANGED fnVars

\* lines 482-485: the listing loop head and the call of safe_get
PageLoop ==
  /\ pc = "page_loop"
  /\ IF page > end_page
       THEN /\ pc' = "finally"
            /\ sg' = sg
       ELSE /\ pc' = "sg_get"
            /\ sg' = SgCall("listing", ListingUrl(page), TRUE, Tries)
  /\ UNCHANGED <<exc, drvVars, ctlVars, rvVars, sinkVars, gateVars>>
  /\ UNCHANGED fnVars

\* lines 485-492: the result of safe_get for a listing page, then
\* maybe_close_popups and extract_listing_cards
ListingLoaded ==
  /\ pc = "sg_ret"
  /\ sg.target = "listing"
  /\ sg' = SgIdle
  /\ IF sg.result = "raise"
       THEN /\ exc' = DriverExc
            /\ pc' = "finally"
            /\ UNCHANGED <<page, cards, idx>>
       ELSE /\ exc' = exc
            /\ IF SkipOnLoad(sg.result = "true")
                 THEN /\ page' = page + 1
                      /\ pc' = "page_loop"
                      /\ UNCHANGED <<cards, idx>>
                 ELSE /\ cards' \in CardLists
                      /\ idx' = 1
                      /\ pc' = "card_loop"
                      /\ page' = page
  /\ UNCHANGED <<drvVars, end_page, rvVars, sinkVars, gateVars>>
  /\ UNCHANGED fnVars

\* lines 494-501: the card loop head, the empty-URL test, the call of
\* safe_get for the product page; lines 556-557 when the cards are exhausted
CardLoop ==
  /\ pc = "card_loop"
  /\ IF idx > Len(cards)
       THEN /\ page' = page + 1
            /\ pc' = "page_loop"
            /\ UNCHANGED <<idx, sg>>
       ELSE IF EmptyUrlSkips(cards[idx].product_url)
              THEN /\ idx' = idx + 1
                   /\ pc' = "card_loop"
                   /\ UNCHANGED <<page, sg>>
              ELSE /\ pc' = "sg_get"
                   /\ sg' = SgCall("pdp", cards[idx].product_url, TRUE, Tries)
                   /\ UNCHANGED <<page, idx>>
  /\ UNCHANGED <<exc, drvVars, end_page, cards, rvVars, sinkVars, gateVars>>
  /\ UNCHANGED fnVars

\* lines 501-505: the result of safe_get for a product page
PdpLoaded ==
  /\ pc = "sg_ret"
  /\ sg.target = "pdp"
  /\ sg' = SgIdle
  /\ IF sg.result = "raise"
       THEN /\ exc' = DriverExc
            /\ pc' = "finally"
            /\ idx' = idx
       ELSE /\ exc' = exc
            /\ IF SkipOnLoad(sg.result = "true")
                 THEN /\ idx' = idx + 1
                      /\ pc' = "card_loop"
                 ELSE /\ idx' = idx
                      /\ pc' = "gate"
  /\ UNCHANGED <<drvVars, end_page, page, cards, rvVars, sinkVars, gateVars>>
  /\ UNCHANGED fnVars

\* line 507: has_reviews, total_rating = product_has_reviews(driver)
GateCheck ==
  /\ pc = "gate"
  /\ \E primary \in PrimaryTexts, badge \in BadgeTexts :
       /\ has_reviews' = product_has_reviews(primary, badge)[1]
       /\ total_rating' = product_has_reviews(primary, badge)[2]
  /\ pc' = "gate_ret"
  /\ UNCHANGED <<exc, drvVars, ctlVars, sg, rvVars, sinkVars>>
  /\ UNCHANGED fnVars

\* lines 508-512: the gate, then extract_product_level_details (which
\* catches every driver error it can meet)
GateBranch ==
  /\ pc = "gate_ret"
  /\ IF GateSkips(has_reviews)
       THEN /\ idx' = idx + 1
            /\ pc' = "card_loop"
       ELSE /\ idx' = idx
            /\ pc' = "rv_init"
  /\ UNCHANGED <<exc, drvVars, end_page, page, cards, sg, rvVars, sinkVars,
                 gateVars>>
  /\ UNCHANGED fnVars


\* ------------------------------------------------- iterate_all_reviews
\* lines 330-334 and 413: the wait for div.mod-reviews and the first page.
\* reviews_root.find_elements (line 337) of the first page runs outside every
\* try statement: a stale root raises through iterate_all_reviews and
\* scrape_range.
RvInit ==
  /\ pc = "rv_init"
  /\ \E out \in {"root_timeout", "stale_root", "page"} :
       CASE out = "root_timeout" ->
              /\ reviews' = <<>>
              /\ rp' = 0
              /\ pageLog' = <<>>
              /\ pc' = "rv_ret"
              /\ exc' = exc
         [] out = "stale_root" ->
              /\ reviews' = <<>>
              /\ rp' = 0
              /\ pageLog' = <<>>
              /\ pc' = "finally"
              /\ exc' = StaleExc
         [] out = "page" ->
              \E n \in PageSizes(<<>>) :
                /\ reviews' = Extend(<<>>, PageItems(<<>>, n))
                /\ rp' = 1
                /\ pageLog' = <<PageItems(<<>>, n)>>
                /\ pc' = "rv_find_next"
                /\ exc' = exc
  /\ UNCHANGED <<drvVars, ctlVars, sg, sinkVars, gateVars>>
  /\ UNCHANGED fnVars

\* lines 416-423: look for the next control
RvFindNext ==
  /\ pc = "rv_find_next"
  /\ \E present \in BOOLEAN :
       pc' = IF present THEN "rv_click" ELSE "rv_ret"
  /\ UNCHANGED <<exc, drvVars, ctlVars, sg, rvVars, sinkVars, gateVars>>
  /\ UNCHANGED fnVars

\* lines 425-437: scroll, click, re-acquire the root, extract the page.
\* The loop has no page cap.  Pages after MaxRevPages are pages that yield no
\* record (the control stays present and the click re-renders a page whose
\* items are all dropped), which keeps the accumulated list finite.
RvClick ==
  /\ pc = "rv_click"
  /\ \E out \in {"intercepted", "stale_click", "root_timeout", "stale_root",
                 "page"} :
       IF out = "page"
         THEN /\ pc' = "rv_find_next"
              /\ IF rp < MaxRevPages
                   THEN \E n \in PageSizes(reviews) :
                          /\ reviews' = Extend(reviews, PageItems(reviews, n))
                          /\ pageLog' = Append(pageLog, PageItems(reviews, n))
                          /\ rp' = rp + 1
                   ELSE /\ reviews' = Extend(reviews, <<>>)
                        /\ UNCHANGED <<rp, pageLog>>
         ELSE /\ pc' = "rv_ret"
              /\ UNCHANGED rvVars
  /\ UNCHANGED <<exc, drvVars, ctlVars, sg, sinkVars, gateVars>>
  /\ UNCHANGED fnVars

\* lines 515-554: the result of iterate_all_reviews (whose own locals are
\* gone), row assembly and the append to the sink.  An append that raises has
\* written some prefix of the batch.
ReviewsReturned ==
  /\ pc = "rv_ret"
  /\ IF NoReviews(reviews)
       THEN /\ idx' = idx + 1
            /\ pc' = "card_loop"
            /\ UNCHANGED <<exc, sinkVars>>
       ELSE LET rows == AssembleRows(reviews, cards[idx])
            IN \E ok \in BOOLEAN :
                 IF ok
                   THEN /\ file' = WriteCsv(file, rows, TRUE)
                        /\ sinkLog' = sinkLog \o rows
                        /\ idx' = idx + 1
                        /\ pc' = "card_loop"
                        /\ UNCHANGED <<exc, headerWrites>>
                   ELSE \E k \in 0..Len(rows) :
                        /\ file' = WriteCsv(file, SubSeq(rows, 1, k), TRUE)
                        /\ sinkLog' = sinkLog \o SubSeq(rows, 1, k)
                        /\ exc' = OnSinkFailure.exc
                        /\ pc' = OnSinkFailure.pc
                        /\ idx' = IF OnSinkFailure.pc = "card_loop"
                                    THEN idx + 1 ELSE idx
                        /\ UNCHANGED headerWrites
  /\ rp' = 0
  /\ pageLog' = <<>>
  /\ UNCHANGED <<drvVars, end_page, page, cards, sg, reviews, gateVars>>
  /\ UNCHANGED fnVars

\* lines 559-563: finally: driver.quit(), any error of it swallowed
Finally ==
  /\ pc = "finally"
  /\ \E quitRaises \in BOOLEAN :
       /\ quitCalls' = quitCalls + 1
       /\ driver' = "quit"
  /\ pc' = "done"
  /\ UNCHANGED <<exc, ctlVars, sg, rvVars, sinkVars, gateVars>>
  /\ UNCHANGED fnVars

Next ==
  \/ CreateDriver
  \/ InitHeader
  \/ PageLoop
  \/ SgGet
  \/ SgProbe
  \/ SgSleep
  \/ ListingLoaded
  \/ CardLoop
  \/ PdpLoaded
  \/ GateCheck
  \/ GateBranch
  \/ RvInit
  \/ RvFindNext
  \/ RvClick
  \/ ReviewsReturned
  \/ Finally

Spec == Init /\ [][Next]_vars

\* the program runs on its own thread of control and every step it can take
\* is eventually taken
FairSpec == Spec /\ WF_vars(Next)

TypeOK ==
  /\ pc \in {"start", "header", "page_loop", "sg_get", "sg_probe", "sg_sleep",
             "sg_ret", "card_loop", "gate", "gate_ret", "rv_init",
             "rv_find_next", "rv_click", "rv_ret", "finally", "done"}
  /\ exc \in {NoExc, OSError, StaleExc, DriverExc}
  /\ driver \in {"none", "open", "quit"}
  /\ quitCalls \in 0..1
  /\ page \in StartPage..(MaxPage + 1)
  /\ idx \in 0..(MaxCards + 1)
  /\ rp \in 0..MaxRevPages


\* ------------------------------------------- safe_get checked on its own
\* One call safe_get(driver, url, ready_css, tries) with any tries in
\* 0..MaxTries, with and without a readiness probe.
InitSafeGet ==
  /\ pc = "sg_get"
  /\ exc = NoExc
  /\ driver = "open"
  /\ quitCalls = 0
  /\ end_page = StartPage
  /\ page = StartPage
  /\ cards = <<>>
  /\ idx = 0
  /\ \E ready \in BOOLEAN, tries \in 0..MaxTries :
       sg = SgCall("call", BaseUrl, ready, tries)
  /\ reviews = <<>>
  /\ rp = 0
  /\ pageLog = <<>>
  /\ file = <<HEADER>>
  /\ headerWrites = 1
  /\ sinkLog = <<>>
  /\ has_reviews = FALSE
  /\ total_rating = None
  /\ arg = NoArg
  /\ res = NoRes

NextSafeGet ==
  \/ SgGet
  \/ SgProbe
  \/ SgSleep

SafeGetSpec == InitSafeGet /\ [][NextSafeGet]_vars

\* ------------------------------------------ the card loop checked on its own
\* The loop of lines 494-554 over a list of card records handed to it, on the
\* last listing page of a run.  The records are any the loop accepts, those
\* with an empty product_url included; extract_listing_cards itself yields
\* none of these (CardUrl of an empty link target is the base URL).
LoopCards == {[product_url |-> u] : u \in {EmptyUrl, CardUrl(<<"/", "p">>)}}

LoopCardLists == UNION {[1..n -> LoopCards] : n \in 0..(MaxCards + 1)}

InitCardLoop ==
  /\ pc = "card_loop"
  /\ exc = NoExc
  /\ driver = "open"
  /\ quitCalls = 0
  /\ end_page = StartPage
  /\ page = StartPage
  /\ cards \in LoopCardLists
  /\ idx = 1
  /\ sg = SgIdle
  /\ reviews = <<>>
  /\ rp = 0
  /\ pageLog = <<>>
  /\ file = <<HEADER>>
  /\ headerWrites = 1
  /\ sinkLog = <<>>
  /\ has_reviews = FALSE
  /\ total_rating = None
  /\ arg = NoArg
  /\ res = NoRes

NextCardLoop ==
  \/ CardLoop
  \/ SgGet
  \/ SgProbe
  \/ SgSleep
  \/ PdpLoaded
  \/ GateCheck
  \/ GateBranch
  \/ RvInit
  \/ RvFindNext
  \/ RvClick
  \/ ReviewsReturned
  \/ PageLoop
  \/ Finally

CardLoopSpec == InitCardLoop /\ [][NextCardLoop]_vars

\* ================================================================ claims
TraversalPcs == {"rv_init", "rv_find_next", "rv_click", "rv_ret"}

NavigationPcs == {"sg_get", "sg_probe", "sg_sleep", "sg_ret"}

RowOf(rv) == [visit |-> rv.visit, n |-> rv.n]

DataRows == IF Len(file) > 1 THEN {RowOf(file[i]) : i \in 2..Len(file)} ELSE {}

\* the rows a step appended to the file
Appended(f, g) == IF IsPrefix(f, g) THEN SubSeq(g, Len(f) + 1, Len(g)) ELSE g

\* C1: a product whose rating gate returned has_ratings = false is left at
\* once (next card, nothing written, nothing collected); the traversal is only
\* ever entered from a gate that returned true for the same product, and
\* every row a step appends belongs to the product being processed, whose gate
\* returned true.
C1_RatingGate ==
  [][ /\ (pc = "gate_ret" /\ ~has_reviews) =>
           /\ pc' = "card_loop"
           /\ idx' = idx + 1
           /\ page' = page
           /\ file' = file
           /\ reviews' = reviews
      /\ (pc' \in TraversalPcs) =>
           /\ pc \in TraversalPcs \cup {"gate_ret"}
           /\ has_reviews /\ has_reviews'
           /\ page' = page /\ idx' = idx
      /\ (has_reviews' # has_reviews) => pc = "gate"
      /\ (file' # file /\ pc # "header") =>
           /\ pc = "rv_ret"
           /\ has_reviews
           /\ IsPrefix(file, file')
           /\ \A r \in Range(Appended(file, file')) : r.visit = <<page, idx>>
    ]_vars

\* C1 witness: the first product of page 1 failed the gate through the badge
\* "(0)" and the orchestrator has moved past its card with no data row.
C1_Witness ==
  /\ pc = "card_loop"
  /\ page = 1
  /\ idx = 2
  /\ ~has_reviews
  /\ total_rating = 0
  /\ file = <<HEADER>>

RowKeyLess(a, b) ==
  \/ a.visit[1] < b.visit[1]
  \/ a.visit[1] = b.visit[1] /\ a.visit[2] < b.visit[2]
  \/ a.visit = b.visit /\ a.n < b.n

SinkLayout ==
  /\ headerWrites <= 1
  /\ (pc \in NavigationPcs) => headerWrites = 1
  /\ (headerWrites = 1) =>
       /\ file = <<HEADER>> \o sinkLog
       /\ \A i \in 2..Len(file) : file[i] # HEADER
       /\ \A i, j \in 2..Len(file) : i < j => RowKeyLess(file[i], file[j])

\* C2: the header is written once, before the first navigation; from then on
\* the file is the header followed by the rows written so far, in processing
\* order (product, then review within the product), and every step keeps what
\* the file already holds as a prefix.
C2_SinkLayout ==
  [][ /\ SinkLayout'
      /\ (headerWrites = 1) => (IsPrefix(file, file') /\ headerWrites' = 1)
    ]_vars

\* C2 witness: two rows of the product of page 1 followed by two rows of the
\* product of page 2 under one header.
C2_Witness ==
  /\ Len(file) = 5
  /\ file[1] = HEADER
  /\ file[2].visit = <<1, 1>> /\ file[3].visit = <<1, 1>>
  /\ file[4].visit = <<2, 1>> /\ file[5].visit = <<2, 1>>

\* review records collected by the last traversal that are not in the file
Unwritten == {r \in Range(reviews) : RowOf(r) \notin DataRows}

\* C3: whenever the orchestrator is between products (loop heads, navigation,
\* rating gate) every collected review is in the file; the reviews that are
\* collected and not written always belong to the product in flight.
C3_BoundedLoss ==
  /\ (pc \in NavigationPcs \cup {"page_loop", "card_loop", "gate", "gate_ret"})
       => Unwritten = {}
  /\ \A r \in Unwritten : r.visit = Visit

\* C3 witness: navigation to the product of page 2 has started and the two
\* reviews collected for the product of page 1 are in the file.
C3_Witness ==
  /\ pc = "sg_get"
  /\ sg.target = "pdp"
  /\ page = 2
  /\ Len(reviews) = 2
  /\ reviews[1].visit = <<1, 1>>
  /\ Unwritten = {}

\* C4 (as claimed): a run in which no sink write fails and the page driver
\* raises only timeouts, missing nodes, stale references or intercepted
\* clicks ends normally after the last listing page.
C4_OnlySinkFatal ==
  (pc \in {"finally", "done"} /\ exc \notin {OSError, DriverExc})
    => (exc = NoExc /\ page = end_page + 1)

\* C5: an append that did not put the whole batch into the file raises
\* OSError out of the loops; once an exception is in flight no product or page
\* is processed, nothing is written, and the run ends with that exception.
C5_SinkFailurePropagates ==
  [][ /\ (pc = "rv_ret" /\ reviews # <<>> /\
          file' # file \o AssembleRows(reviews, cards[idx])) =>
           (exc' = OSError /\ pc' = "finally")
      /\ (exc # NoExc) =>
           /\ exc' = exc
           /\ pc' \in {"finally", "done"}
           /\ file' = file
           /\ UNCHANGED <<page, idx, cards, sg, reviews>>
    ]_vars

\* C5 witness: the run has ended with the OSError of an append (the header
\* had been written) after the driver was released.
C5_Witness ==
  /\ pc = "done"
  /\ exc = OSError
  /\ headerWrites = 1
  /\ quitCalls = 1
  /\ Unwritten # {}

\* C6 (as claimed): a finished run that obtained a driver has called
\* driver.quit exactly once.
C6_DriverReleased ==
  (pc = "done" /\ driver # "none") => quitCalls = 1

\* C7: safe_get with a probe and tries = n >= 1 issues at most n navigations;
\* it returns true in the attempt in which the probe appears, all earlier
\* attempts having timed out, and navigates no more; it returns false exactly
\* when the probe timed out n times, after n navigations.
C7_BoundedRetries ==
  [][ (sg.ready /\ sg.tries >= 1) =>
        /\ sg'.navs <= sg'.tries
        /\ sg'.timeouts <= sg'.tries
        /\ (sg'.result = "true") =>
             (sg'.timeouts < sg'.tries /\ sg'.navs = sg'.timeouts + 1)
        /\ (sg'.result = "false") <=> (sg'.timeouts = sg'.tries)
        /\ (sg'.result = "false") => (sg'.navs = sg'.tries)
        /\ (sg.result # "none") => (sg'.navs = sg.navs)
    ]_vars

\* C7 witness: false returned after three probe timeouts and three navigations
C7_Witness ==
  /\ pc = "sg_ret"
  /\ sg.ready
  /\ sg.tries = 3
  /\ sg.result = "false"
  /\ sg.navs = 3
  /\ sg.timeouts = 3

\* C8: when safe_get returned false for a listing page the next step is the
\* loop head with the next page number, and when it returned false for a
\* product page the next step is the loop head with the next card of the same
\* page; cards, rating gate, collected reviews and file are untouched.
C8_SkipOnLoadFailure ==
  [][ /\ (pc = "sg_ret" /\ sg.result = "false" /\ sg.target = "listing") =>
           /\ pc' = "page_loop"
           /\ page' = page + 1
           /\ UNCHANGED <<cards, idx, rvVars, sinkVars, gateVars>>
      /\ (pc = "sg_ret" /\ sg.result = "false" /\ sg.target = "pdp") =>
           /\ pc' = "card_loop"
           /\ idx' = idx + 1
           /\ UNCHANGED <<page, cards, rvVars, sinkVars, gateVars>>
    ]_vars

\* C8 witness: listing page 1 failed to load (no card list was ever extracted)
\* and the load of page 2 is starting.
C8_Witness ==
  /\ pc = "sg_get"
  /\ sg.target = "listing"
  /\ page = 2
  /\ idx = 0

\* C9: during a traversal the accumulated list only grows at its end, and
\* when the traversal returns the list is the concatenation of the page
\* results in page order.
C9_NoPageLost ==
  [][ /\ (pc \in {"rv_find_next", "rv_click"}) => IsPrefix(reviews, reviews')
      /\ (pc' = "rv_ret") => (reviews' = Flatten(pageLog'))
    ]_vars

\* C9 witness: a traversal that extracted two pages with one record each has
\* returned.
C9_Witness ==
  /\ pc = "rv_ret"
  /\ rp = 2
  /\ Len(reviews) = 2
  /\ Len(pageLog) = 2
  /\ Len(pageLog[1]) = 1 /\ Len(pageLog[2]) = 1

\* C10 (as claimed): every traversal that starts eventually returns (or
\* raises).
C10_TraversalTerminates ==
  (pc = "rv_init") ~> (pc \in {"rv_ret", "finally"})


\* C11: a traversal whose wait for the reviews root timed out returns at once
\* (no page extracted, next control not looked for) with zero reviews; and a
\* traversal result of zero reviews makes the orchestrator go to the next
\* card with nothing written, no error raised and no second traversal.
C11_EmptyTraversal ==
  [][ /\ (pc = "rv_init" /\ rp' = 0 /\ exc' = NoExc) =>
           (pc' = "rv_ret" /\ reviews' = <<>> /\ pageLog' = <<>>)
      /\ (pc = "rv_init" /\ pc' = "rv_ret") =>
           (rp' = 0 /\ reviews' = <<>> /\ pageLog' = <<>>)
      /\ (pc = "rv_ret" /\ reviews = <<>>) =>
           /\ pc' = "card_loop"
           /\ idx' = idx + 1
           /\ exc' = exc
           /\ UNCHANGED <<page, cards, reviews, sinkVars, gateVars>>
    ]_vars

\* C11 witness: the product of page 1 passed the gate, its traversal returned
\* no review, and the orchestrator has moved past its card with only the
\* header in the file.
C11_Witness ==
  /\ pc = "card_loop"
  /\ page = 1
  /\ idx = 2
  /\ has_reviews
  /\ reviews = <<>>
  /\ file = <<HEADER>>
  /\ exc = NoExc


\* ======================================== extraction functions on their own
\* A string is the sequence of its pieces, the empty string the empty
\* sequence.
Str(x) == <<x>>

EmptyStr == <<>>

\* a DOM node looked up with find_element: its text when it exists
Node(text) == [present |-> TRUE, text |-> text]

NoNode == [present |-> FALSE, text |-> EmptyStr]

\* _text_or_empty of the node find_element returned, or the default the
\* except NoSuchElementException clause leaves
TextOrDefault(node) == IF node.present THEN node.text ELSE EmptyStr

\* ------------------------------------------------------ extract_page_items
MaxStars == 6
\* most img.star nodes find_elements returns for one review item
MaxPageLen == 3
\* most div.item nodes of one review page

\* lines 342-347: the number of star images whose src holds STAR_FILLED_TOKEN
RECURSIVE CountFilled(_)
CountFilled(stars) ==
  IF stars = <<>> THEN 0
  ELSE (IF Head(stars) = "filled" THEN 1 ELSE 0) + CountFilled(Tail(stars))

\* lines 375-384: the URLs parsed from the style values, those without a
\* url(...) pattern left out
ReviewImages(styles) == SelectSeq(styles, LAMBDA u : u # "")

\* lines 387-396: the number in the last span of span.left-content, 0 when
\* the container or its spans are missing or the span holds no digits
ReviewLikes(likes) ==
  IF likes.present /\ likes.spans # <<>>
    THEN LET v == likes.spans[Len(likes.spans)] IN IF v = None THEN 0 ELSE v
    ELSE 0

\* lines 340-409: the record of one review item, or nothing when a lookup on
\* the item raised StaleElementReferenceException
extract_item(it) ==
  IF it.stale THEN [kept |-> FALSE]
  ELSE [kept |-> TRUE,
        rec |-> [reviewer |-> IF it.user # <<>> THEN it.user[1] ELSE EmptyStr,
                 rating_number |-> CountFilled(it.stars),
                 review_text |-> TextOrDefault(it.text),
                 review_images |-> ReviewImages(it.images),
                 review_date |-> TextOrDefault(it.date),
                 review_like |-> ReviewLikes(it.likes)]]

\* lines 336-410: the records of the items of one page, in item order; the
\* first definition has "break" in place of "continue" at line 409
RECURSIVE extract_page_items(_)
RECURSIVE extract_page_itemsStopAtStale(_)
extract_page_itemsStopAtStale(items) ==
  IF items = <<>> \/ ~extract_item(Head(items)).kept THEN <<>>
  ELSE <<extract_item(Head(items)).rec>> \o extract_page_itemsStopAtStale(Tail(items))

extract_page_items(items) ==
  IF items = <<>> THEN <<>>
  ELSE (IF extract_item(Head(items)).kept
          THEN <<extract_item(Head(items)).rec>> ELSE <<>>)
       \o extract_page_items(Tail(items))

\* a complete review item whose reviewer is named after u
FullItem(u) ==
  [stale |-> FALSE,
   stars |-> <<"filled", "filled", "empty">>,
   date |-> Node(Str("date")),
   user |-> <<Str(u), Str("badge")>>,
   text |-> Node(Str("body")),
   images |-> <<"img1", "", "img2">>,
   likes |-> [present |-> TRUE, spans |-> <<None, 7>>]]

ItemShapes == {"full", "no_date", "no_text", "no_images", "no_likes", "stale"}

\* the item of a shape: complete, with one node missing, or going stale
ItemDom(u, shape) ==
  CASE shape = "full" -> FullItem(u)
    [] shape = "no_date" -> [FullItem(u) EXCEPT !.date = NoNode]
    [] shape = "no_text" -> [FullItem(u) EXCEPT !.text = NoNode]
    [] shape = "no_images" -> [FullItem(u) EXCEPT !.images = <<>>]
    [] shape = "no_likes" ->
         [FullItem(u) EXCEPT !.likes = [present |-> FALSE, spans |-> <<>>]]
    [] shape = "stale" -> [FullItem(u) EXCEPT !.stale = TRUE]

StarSeqs == UNION {[1..n -> {"filled", "empty"}] : n \in 0..MaxStars}

\* inputs: one item with any stars; one page of items named by position
ItemArgs ==
  {[kind |-> "item", item |-> [FullItem("u") EXCEPT !.stars = st]] : st \in StarSeqs}

PageArgs ==
  {[kind |-> "page", items |-> [i \in DOMAIN sh |-> ItemDom(i, sh[i])]] :
     sh \in UNION {[1..n -> ItemShapes] : n \in 0..MaxPageLen}}


\* --------------------------------------------------- extract_listing_cards
\* a node whose text holds a number (None when it holds none)
NumNode(v) == [present |-> TRUE, value |-> v]

NoNumNode == [present |-> FALSE, value |-> None]

\* a listing card whose nodes are all present
FullCard(href) ==
  [stale |-> FALSE,
   anchor |-> [present |-> TRUE, readable |-> TRUE, href |-> href],
   img |-> Node(Str("src")),
   title |-> Node(Str("title")),
   price |-> NumNode(1234),
   sold |-> NumNode(120),
   loc |-> Node(Str("Dhaka"))]

CardFields == {"img", "title", "price", "sold", "loc"}

\* the card with the node of one field (or its link, or nothing) missing
CardDom(href, missing) ==
  CASE missing = "none" -> FullCard(href)
    [] missing = "link" ->
         [FullCard(href) EXCEPT
            !.anchor = [present |-> FALSE, readable |-> FALSE, href |-> EmptyUrl]]
    [] missing = "img" -> [FullCard(href) EXCEPT !.img = NoNode]
    [] missing = "title" -> [FullCard(href) EXCEPT !.title = NoNode]
    [] missing = "price" -> [FullCard(href) EXCEPT !.price = NoNumNode]
    [] missing = "sold" -> [FullCard(href) EXCEPT !.sold = NoNumNode]
    [] missing = "loc" -> [FullCard(href) EXCEPT !.loc = NoNode]

\* _get_attr(anchor, "href"), lines 40-45: the stripped attribute, "" when
\* it is missing or get_attribute raised
get_attr(anchor) == IF anchor.readable THEN anchor.href ELSE EmptyUrl

\* lines 157-206: the record of one card.  The lookups of the anchor (160),
\* the image (165), the title (169) and the price (173) are not guarded: their
\* NoSuchElementException reaches line 203 and the card is skipped, as is a
\* card that went stale (205); total sold and seller location are guarded.
extract_card(c) ==
  IF c.stale \/ ~c.anchor.present \/ ~c.img.present \/ ~c.title.present
       \/ ~c.price.present
    THEN [kept |-> FALSE]
    ELSE [kept |-> TRUE,
          rec |-> [product_url |-> CardUrl(get_attr(c.anchor)),
                   product_img |-> c.img.text,
                   product_price |-> c.price.value,
                   total_sold |-> IF c.sold.present THEN c.sold.value ELSE None,
                   seller_location |-> TextOrDefault(c.loc),
                   listing_title |-> c.title.text]]

MaxListLen == 3
\* most cards find_elements returns for one listing page

\* lines 157-206: the records of the cards in document order, a card that
\* raised skipped; the first definition leaves the loop at the first such card
RECURSIVE CardRecords(_)
RECURSIVE CardRecordsStopAtSkip(_)
CardRecordsStopAtSkip(doms) ==
  IF doms = <<>> \/ ~extract_card(Head(doms)).kept THEN <<>>
  ELSE <<extract_card(Head(doms)).rec>> \o CardRecordsStopAtSkip(Tail(doms))

CardRecords(doms) ==
  IF doms = <<>> THEN <<>>
  ELSE (IF extract_card(Head(doms)).kept
          THEN <<extract_card(Head(doms)).rec>> ELSE <<>>)
       \o CardRecords(Tail(doms))

\* lines 144-208: [] when the listing container never appears (148-151)
extract_listing_cards(container, doms) ==
  IF ~container THEN <<>> ELSE CardRecords(doms)

ListShapes == {"none", "img", "sold", "link", "stale", "nohref", "unreadable"}

\* the i-th card of a page, its title text i: complete, with a node missing,
\* stale, with an empty href, or with an href that cannot be read
ListedCard(i, shape) ==
  LET full == [FullCard(<<"/", "p">>) EXCEPT !.title = Node(Str(i))] IN
  CASE shape = "none" -> full
    [] shape = "img" -> [full EXCEPT !.img = NoNode]
    [] shape = "sold" -> [full EXCEPT !.sold = NoNumNode]
    [] shape = "link" ->
         [full EXCEPT
            !.anchor = [present |-> FALSE, readable |-> FALSE, href |-> EmptyUrl]]
    [] shape = "stale" -> [full EXCEPT !.stale = TRUE]
    [] shape = "nohref" -> [full EXCEPT !.anchor.href = EmptyUrl]
    [] shape = "unreadable" -> [full EXCEPT !.anchor.readable = FALSE]

ListingArgs ==
  {[kind |-> "listing", container |-> c,
    cards |-> [i \in DOMAIN sh |-> ListedCard(i, sh[i])]] :
     c \in BOOLEAN,
     sh \in UNION {[1..n -> ListShapes] : n \in 0..MaxListLen}}

\* ------------------------------------------- extract_product_level_details
\* a product page whose detail nodes are all present
FullDetail ==
  [name |-> Node(Str("name")),
   seller |-> Node(Str("seller")),
   psr |-> Node(Str("83%")),
   crumbs |-> <<"cat1", "", "cat2">>,
   thumbs |-> <<"g1", "", "g2">>,
   avg |-> Node(Str("5.0")),
   mx |-> Node(Str("/5")),
   rows |-> <<NumNode(9), NoNumNode, NumNode(None), NumNode(0), NumNode(1),
              NumNode(4)>>]

DetailFields == {"name", "seller", "psr", "crumbs", "thumbs", "avg", "rows"}

DetailDom(missing) ==
  CASE missing = "none" -> FullDetail
    [] missing = "name" -> [FullDetail EXCEPT !.name = NoNode]
    [] missing = "seller" -> [FullDetail EXCEPT !.seller = NoNode]
    [] missing = "psr" -> [FullDetail EXCEPT !.psr = NoNode]
    [] missing = "crumbs" -> [FullDetail EXCEPT !.crumbs = <<>>]
    [] missing = "thumbs" -> [FullDetail EXCEPT !.thumbs = <<>>]
    [] missing = "avg" -> [FullDetail EXCEPT !.avg = NoNode]
    [] missing = "rows" -> [FullDetail EXCEPT !.rows = <<>>]
    [] missing = "all" ->
         [name |-> NoNode, seller |-> NoNode, psr |-> NoNode, crumbs |-> <<>>,
          thumbs |-> <<>>, avg |-> NoNode, mx |-> NoNode, rows |-> <<>>]

\* lines 291-304: the counts of the first five histogram rows for the star
\* buckets 5..1, 0 for a row without count
RatingSummary(rows) ==
  [i \in 1..Min(Len(rows), 5) |->
     <<6 - i, IF rows[i].present /\ rows[i].value # None THEN rows[i].value ELSE 0>>]

\* lines 235-314: every lookup is guarded, so a record is always returned
extract_product_level_details(d) ==
  [product_name |-> TextOrDefault(d.name),
   seller_name |-> TextOrDefault(d.seller),
   positive_seller_ratings |-> TextOrDefault(d.psr),
   product_categories |-> SelectSeq(d.crumbs, LAMBDA c : c # ""),
   product_image_urls |-> SelectSeq(d.thumbs, LAMBDA t : t # ""),
   overall_rating |-> IF d.avg.present /\ d.mx.present
                        THEN d.avg.text \o d.mx.text ELSE EmptyStr,
   rating_summary_map |-> RatingSummary(d.rows)]

\* ------------------------------------------------------------ row assembly
MaxRowReviews == 2
\* most reviews of the batch assembled on its own

\* ", ".join(list)
RECURSIVE Join(_)
Join(list) ==
  IF list = <<>> THEN EmptyStr
  ELSE IF Len(list) = 1 THEN <<list[1]>>
  ELSE <<list[1], ", ">> \o Join(Tail(list))

\* v if v is not None else ""
OrEmpty(v) == IF v # None THEN <<v>> ELSE EmptyStr

\* line 531: pd["product_name"] or card["listing_title"]; the first
\* definition has the operands of "or" exchanged
ProductNameListingFirst(pd, card) ==
  IF card.listing_title # EmptyStr THEN card.listing_title ELSE pd.product_name

ProductName(pd, card) ==
  IF pd.product_name # EmptyStr THEN pd.product_name ELSE card.listing_title

\* line 541
ProductImage(pd, card) ==
  IF pd.product_image_urls # <<>> THEN Join(pd.product_image_urls)
  ELSE card.product_img

\* lines 537-540: "<n> star: <count>" pairs joined
RECURSIVE SummaryText(_)
SummaryText(m) ==
  IF m = <<>> THEN EmptyStr
  ELSE IF Len(m) = 1 THEN <<m[1][1], " star: ", m[1][2]>>
  ELSE <<m[1][1], " star: ", m[1][2], ", ">> \o SummaryText(Tail(m))

\* lines 524-547: the row of one review (the capture timestamp left out)
row_dict(rv, card, pd, total) ==
  [reviewer |-> rv.reviewer,
   rating |-> rv.rating_number,
   text |-> rv.review_text,
   image |-> IF rv.review_images # <<>> THEN Join(rv.review_images) ELSE EmptyStr,
   date |-> rv.review_date,
   like |-> rv.review_like,
   product_name |-> ProductName(pd, card),
   category |-> Join(pd.product_categories),
   price |-> OrEmpty(card.product_price),
   total_sold |-> OrEmpty(card.total_sold),
   total_rating |-> OrEmpty(total),
   overall_rating |-> pd.overall_rating,
   rating_summary |-> SummaryText(pd.rating_summary_map),
   product_image |-> ProductImage(pd, card),
   seller_name |-> pd.seller_name,
   positive_seller_ratings |-> pd.positive_seller_ratings,
   seller_location |-> card.seller_location,
   source |-> card.product_url]

\* lines 521-548: rows_to_write; the first definition uses the first review
\* for every row
assemble_rowsFirstReview(rvs, card, pd, total) ==
  [i \in 1..Len(rvs) |-> row_dict(rvs[1], card, pd, total)]

assemble_rows(rvs, card, pd, total) ==
  [i \in 1..Len(rvs) |-> row_dict(rvs[i], card, pd, total)]


\* ------------------------------------------------------------- the inputs
\* link targets a card can carry: empty, protocol-relative, absolute path,
\* relative path, absolute with either scheme
Hrefs ==
  {EmptyUrl,
   <<"/", "/", "www.daraz.com.bd", "/", "p">>,
   <<"/", "p">>,
   <<"p">>,
   <<"https:", "/", "/", "www.daraz.com.bd", "/", "p">>,
   <<"http:", "/", "/", "cdn.host", "/", "p">>}

HrefArgs == {[kind |-> "href", href |-> h] : h \in Hrefs}

CardShapes == CardFields \cup {"none", "link"}

CardArgs ==
  {[kind |-> "card", missing |-> m, href |-> h, card |-> CardDom(h, m)] :
     m \in CardShapes, h \in {<<"/", "p">>, <<"/", "/", "www.daraz.com.bd", "/", "p">>}}
  \cup {[kind |-> "card", missing |-> "stale", href |-> <<"/", "p">>,
         card |-> [FullCard(<<"/", "p">>) EXCEPT !.stale = TRUE]]}

DetailShapes == DetailFields \cup {"none", "all"}

DetailArgs == {[kind |-> "detail", missing |-> m, dom |-> DetailDom(m)] : m \in DetailShapes}

GateDigits == {None, 0, 8}

GateTexts == {Absent} \cup {Text(m, d) : m \in BOOLEAN, d \in GateDigits}

GateArgs == {[kind |-> "gate", primary |-> p, badge |-> b] : p \in GateTexts, b \in GateTexts}

\* batches of reviews as the traversal returns them, never empty at line 520
RowReviews ==
  {extract_page_items([i \in DOMAIN sh |-> ItemDom(i, sh[i])]) :
     sh \in UNION {[1..n -> {"full", "no_images"}] : n \in 1..MaxRowReviews}}

RowCards ==
  {extract_card(c).rec :
     c \in {FullCard(<<"/", "p">>), CardDom(<<"/", "p">>, "sold"),
            [FullCard(<<"/", "p">>) EXCEPT !.title = Node(EmptyStr),
                                           !.price = NumNode(None)]}}

RowDetails ==
  {extract_product_level_details(DetailDom(m)) :
     m \in {"none", "name", "crumbs", "thumbs", "all"}}

RowArgs ==
  {[kind |-> "rows", reviews |-> rvs, card |-> c, pd |-> d, total |-> t] :
     rvs \in RowReviews, c \in RowCards, d \in RowDetails, t \in {None, 8}}

ExtractArgs ==
  ItemArgs \cup PageArgs \cup CardArgs \cup DetailArgs \cup GateArgs
    \cup HrefArgs \cup RowArgs \cup ListingArgs

\* --------------------------------------------- one call of one extractor
InitExtract ==
  /\ pc = "fn_call"
  /\ exc = NoExc
  /\ driver = "open"
  /\ quitCalls = 0
  /\ end_page = StartPage
  /\ page = StartPage
  /\ cards = <<>>
  /\ idx = 0
  /\ sg = SgIdle
  /\ reviews = <<>>
  /\ rp = 0
  /\ pageLog = <<>>
  /\ file = <<HEADER>>
  /\ headerWrites = 1
  /\ sinkLog = <<>>
  /\ has_reviews = FALSE
  /\ total_rating = None
  /\ arg \in ExtractArgs
  /\ res = NoRes

Returned(v) ==
  /\ res' = [done |-> TRUE, val |-> v]
  /\ pc' = "fn_ret"
  /\ UNCHANGED <<exc, driver, quitCalls, ctlVars, sg, rvVars, sinkVars,
                 has_reviews, total_rating, arg>>

ApplyItem ==
  /\ pc = "fn_call" /\ arg.kind = "item"
  /\ Returned(extract_page_items(<<arg.item>>))

ApplyPage ==
  /\ pc = "fn_call" /\ arg.kind = "page"
  /\ Returned(extract_page_items(arg.items))

ApplyCard ==
  /\ pc = "fn_call" /\ arg.kind = "card"
  /\ Returned(extract_card(arg.card))

ApplyDetail ==
  /\ pc = "fn_call" /\ arg.kind = "detail"
  /\ Returned(extract_product_level_details(arg.dom))

ApplyGate ==
  /\ pc = "fn_call" /\ arg.kind = "gate"
  /\ Returned(product_has_reviews(arg.primary, arg.badge))

ApplyCardUrl ==
  /\ pc = "fn_call" /\ arg.kind = "href"
  /\ Returned(CardUrl(arg.href))

ApplyRows ==
  /\ pc = "fn_call" /\ arg.kind = "rows"
  /\ Returned(assemble_rows(arg.reviews, arg.card, arg.pd, arg.total))

ApplyListing ==
  /\ pc = "fn_call" /\ arg.kind = "listing"
  /\ Returned(extract_listing_cards(arg.container, arg.cards))

\* ------------------------------------ a run over at most one listing page
\* scrape_range from its first line, with the contents out_csv had before the
\* run kept in arg.
FoundFiles == {<<>>, <<HEADER>>, <<HEADER, OldRow>>, <<HEADER, OldRow, OldRow>>}

InitRerun ==
  /\ pc = "start"
  /\ exc = NoExc
  /\ driver = "none"
  /\ quitCalls = 0
  /\ end_page \in {StartPage - 1, StartPage}
  /\ page = StartPage
  /\ cards = <<>>
  /\ idx = 0
  /\ sg = SgIdle
  /\ reviews = <<>>
  /\ rp = 0
  /\ pageLog = <<>>
  /\ file \in FoundFiles
  /\ headerWrites = 0
  /\ sinkLog = <<>>
  /\ has_reviews = FALSE
  /\ total_rating = None
  /\ arg = [kind |-> "run", found |-> file]
  /\ res = NoRes

RerunSpec == InitRerun /\ [][Next]_vars

\* --------------------------- the card loop on the cards of a listing page
\* The state after line 492 on the last listing page of a run: cards is what
\* extract_listing_cards returned for the page kept in arg.
LoopShapes == {"none", "img", "nohref", "unreadable"}

ListedArgs ==
  {[kind |-> "listing", container |-> TRUE,
    cards |-> [i \in DOMAIN sh |-> ListedCard(i, sh[i])]] :
     sh \in UNION {[1..n -> LoopShapes] : n \in 0..(MaxCards + 1)}}

\* the part of a card record the model of the orchestrator keeps
Summaries(recs) == [i \in DOMAIN recs |-> [product_url |-> recs[i].product_url]]

InitListedCards ==
  /\ pc = "card_loop"
  /\ exc = NoExc
  /\ driver = "open"
  /\ quitCalls = 0
  /\ end_page = StartPage
  /\ page = StartPage
  /\ arg \in ListedArgs
  /\ cards = Summaries(extract_listing_cards(arg.container, arg.cards))
  /\ idx = 1
  /\ sg = SgIdle
  /\ reviews = <<>>
  /\ rp = 0
  /\ pageLog = <<>>
  /\ file = <<HEADER>>
  /\ headerWrites = 1
  /\ sinkLog = <<>>
  /\ has_reviews = FALSE
  /\ total_rating = None
  /\ res = NoRes

ListedCardsSpec == InitListedCards /\ [][NextCardLoop]_vars

NextExtract ==
  \/ ApplyItem
  \/ ApplyPage
  \/ ApplyCard
  \/ ApplyDetail
  \/ ApplyGate
  \/ ApplyCardUrl
  \/ ApplyRows
  \/ ApplyListing

ExtractSpec == InitExtract /\ [][NextExtract]_vars


\* ============================================= claims on the card loop
\* C16: for a card record whose product_url is empty the orchestrator issues
\* no product-page navigation, rating check, detail extraction, review
\* traversal or sink write, and goes on with the next card.
C16_EmptyUrlDropped ==
  [][ (pc = "card_loop" /\ idx <= Len(cards)
         /\ cards[idx].product_url = EmptyUrl) =>
        /\ pc' = "card_loop"
        /\ idx' = idx + 1
        /\ UNCHANGED <<exc, page, cards, sg, rvVars, sinkVars, gateVars>>
    ]_vars

\* C16 witness: the first card had an empty URL, nothing was navigated or
\* written for it, and the second card's product page is being requested
C16_Witness ==
  /\ pc = "sg_get"
  /\ idx = 2
  /\ cards[1].product_url = EmptyUrl
  /\ sg.target = "pdp" /\ sg.navs = 0
  /\ file = <<HEADER>>
  /\ sinkLog = <<>>

\* ============================================= claims on the extractors
\* C12: every review record extract_page_items produces has a star count in
\* 0..5, whatever number of img.star nodes the item holds and however many of
\* them carry the filled token.
C12_StarRange ==
  (arg.kind \in {"item", "page"} /\ res.done) =>
    \A i \in DOMAIN res.val : res.val[i].rating_number \in 0..5

\* the count the code does bound: the number of img.star nodes of the item
C12_StarsAtMostNodes ==
  (arg.kind = "item" /\ res.done) =>
    \A i \in DOMAIN res.val :
      res.val[i].rating_number \in 0..Len(arg.item.stars)

\* the record key filled from the node of a card field / a detail field
CardKey ==
  [img |-> "product_img", title |-> "listing_title", price |-> "product_price",
   sold |-> "total_sold", loc |-> "seller_location"]

DetailKey ==
  [name |-> "product_name", seller |-> "seller_name",
   psr |-> "positive_seller_ratings", crumbs |-> "product_categories",
   thumbs |-> "product_image_urls", avg |-> "overall_rating",
   rows |-> "rating_summary_map"]

\* a card with its link present and the node of one field missing still
\* gives a record, equal to the complete card's in every other field
CardKeepsRecord ==
  (arg.kind = "card" /\ arg.missing \in CardFields /\ res.done) =>
    /\ res.val.kept
    /\ \A k \in DOMAIN res.val.rec \ {CardKey[arg.missing]} :
         res.val.rec[k] = extract_card(FullCard(arg.href)).rec[k]

\* the detail with the node of one field missing equals the complete detail
\* in every other field, and has the default in that field
DetailKeepsRecord ==
  (arg.kind = "detail" /\ arg.missing \in DetailFields /\ res.done) =>
    /\ \A k \in DOMAIN res.val \ {DetailKey[arg.missing]} :
         res.val[k] = extract_product_level_details(FullDetail)[k]
    /\ res.val[DetailKey[arg.missing]] = <<>>

\* a review item with one node missing gives a record equal to the complete
\* item's wherever the node is there
ReviewKeepsRecord ==
  (arg.kind = "page" /\ Len(arg.items) = 1 /\ res.done) =>
    LET it == arg.items[1]
        full == extract_item(FullItem(1)).rec
    IN  ~it.stale =>
          /\ Len(res.val) = 1
          /\ res.val[1].reviewer = full.reviewer
          /\ res.val[1].rating_number = full.rating_number
          /\ it.date.present => res.val[1].review_date = full.review_date
          /\ it.text.present => res.val[1].review_text = full.review_text
          /\ it.images # <<>> => res.val[1].review_images = full.review_images
          /\ it.likes.present => res.val[1].review_like = full.review_like

\* C13: in every record-producing extractor, a missing node of exactly one
\* field never discards the record; the field is absent or at its default and
\* the other fields are as they would be otherwise.
C13_MissingFieldKeepsRecord ==
  CardKeepsRecord /\ DetailKeepsRecord /\ ReviewKeepsRecord

\* what holds for the detail and the review items, and for the two guarded
\* fields of a card
C13_GuardedFieldsKeepRecord ==
  /\ DetailKeepsRecord
  /\ ReviewKeepsRecord
  /\ (arg.kind = "card" /\ arg.missing \in {"sold", "loc"}) => CardKeepsRecord

RemoveAt(s, j) == SubSeq(s, 1, j - 1) \o SubSeq(s, j + 1, Len(s))

NotStale(items) == SelectSeq(items, LAMBDA it : ~it.stale)

\* C14: extract_page_items emits, in item order, one record for every item
\* that raises no stale-reference error; a missing date, body text, image list
\* or like count leaves the default in that field; dropping an item changes no
\* other item's record.
C14_PerReviewIsolation ==
  (arg.kind = "page" /\ res.done) =>
    LET kept == NotStale(arg.items) IN
    /\ Len(res.val) = Len(kept)
    /\ \A i \in DOMAIN kept :
         /\ res.val[i].reviewer = kept[i].user[1]
         /\ res.val[i].rating_number = 2
         /\ res.val[i].review_date =
              (IF kept[i].date.present THEN Str("date") ELSE EmptyStr)
         /\ res.val[i].review_text =
              (IF kept[i].text.present THEN Str("body") ELSE EmptyStr)
         /\ res.val[i].review_images =
              (IF kept[i].images # <<>> THEN <<"img1", "img2">> ELSE <<>>)
         /\ res.val[i].review_like = (IF kept[i].likes.present THEN 7 ELSE 0)
    /\ \A j \in DOMAIN arg.items :
         LET rest == extract_page_items(RemoveAt(arg.items, j))
             k == Len(NotStale(SubSeq(arg.items, 1, j)))
         IN  rest = IF arg.items[j].stale THEN res.val ELSE RemoveAt(res.val, k)

C14_Witness ==
  /\ arg.kind = "page" /\ res.done
  /\ Len(arg.items) = MaxPageLen
  /\ arg.items[1].stale
  /\ ~arg.items[2].stale /\ ~arg.items[2].text.present
  /\ ~arg.items[3].stale /\ arg.items[3].text.present
  /\ Len(res.val) = MaxPageLen - 1
  /\ res.val[1].review_text = EmptyStr
  /\ res.val[2].review_text = Str("body")

\* C15: the result of product_has_reviews by case of the summary link and
\* the badge; every case returns a pair.
C15_GateCases ==
  (arg.kind = "gate" /\ res.done) =>
    LET p == arg.primary
        b == arg.badge
    IN  /\ (p.present /\ p.marker) => res.val = <<FALSE, None>>
        /\ (p.present /\ ~p.marker) => res.val = <<TRUE, p.digits>>
        /\ (~p.present /\ b.present) =>
             res.val = <<b.digits # None /\ b.digits > 0, b.digits>>
        /\ (~p.present /\ ~b.present) => res.val = <<FALSE, None>>

C15_Witness ==
  /\ arg.kind = "gate" /\ res.done
  /\ ~arg.primary.present
  /\ arg.badge.present /\ arg.badge.digits = 8
  /\ res.val = <<TRUE, 8>>


\* scheme://host...
IsAbsolute(u) ==
  /\ Len(u) >= 4
  /\ u[1] \in Schemes
  /\ u[2] = "/" /\ u[3] = "/"
  /\ u[4] # "/"

EndsWith(s, suffix) ==
  Len(s) >= Len(suffix) /\ SubSeq(s, Len(s) - Len(suffix) + 1, Len(s)) = suffix

\* C17: the product_url of a card is empty or absolute for every link target:
\* a protocol-relative target gets "https:", a relative path is resolved
\* against the site base URL, an absolute URL comes back unchanged, and
\* normalising the result again changes nothing.
C17_UrlEmptyOrAbsolute ==
  (arg.kind = "href" /\ res.done) =>
    LET h == arg.href
        u == res.val
    IN  /\ u = EmptyUrl \/ IsAbsolute(u)
        /\ StartsWith(h, <<"/", "/">>) => u = <<"https:">> \o h
        /\ (h # EmptyUrl /\ h[1] \notin Schemes /\ ~StartsWith(h, <<"/", "/">>)) =>
             /\ StartsWith(u, <<"https:", "/", "/", "www.daraz.com.bd", "/">>)
             /\ EndsWith(u, h)
        /\ IsAbsolute(h) => u = h
        /\ CardUrl(u) = u

C17_Witness ==
  /\ arg.kind = "href" /\ res.done
  /\ arg.href = <<"p">>
  /\ res.val = <<"https:", "/", "/", "www.daraz.com.bd", "/", "p">>

ReviewKeys == {"reviewer", "rating", "text", "image", "date", "like"}

\* C18: the batch has one row per review, in review order; row i carries the
\* review fields of review i, and all rows carry the same values of the
\* product's summary, detail, total rating and source URL.
C18_OneRowPerReview ==
  (arg.kind = "rows" /\ res.done) =>
    /\ Len(res.val) = Len(arg.reviews)
    /\ \A i \in DOMAIN res.val :
         LET r == res.val[i]
             rv == arg.reviews[i]
         IN  /\ r.reviewer = rv.reviewer
             /\ r.rating = rv.rating_number
             /\ r.text = rv.review_text
             /\ r.image = Join(rv.review_images)
             /\ r.date = rv.review_date
             /\ r.like = rv.review_like
             /\ r.source = arg.card.product_url
             /\ r.price = OrEmpty(arg.card.product_price)
             /\ r.total_sold = OrEmpty(arg.card.total_sold)
             /\ r.seller_location = arg.card.seller_location
             /\ r.total_rating = OrEmpty(arg.total)
             /\ r.overall_rating = arg.pd.overall_rating
             /\ r.seller_name = arg.pd.seller_name
             /\ r.positive_seller_ratings = arg.pd.positive_seller_ratings
    /\ \A i, j \in DOMAIN res.val :
         \A k \in DOMAIN res.val[i] \ ReviewKeys : res.val[i][k] = res.val[j][k]

C18_Witness ==
  /\ arg.kind = "rows" /\ res.done
  /\ Len(arg.reviews) = 2 /\ Len(res.val) = 2
  /\ res.val[1].reviewer = Str(1) /\ res.val[2].reviewer = Str(2)
  /\ res.val[1].image # res.val[2].image
  /\ res.val[1].source = res.val[2].source

\* C19: the row's product name is the detail name when it is not empty and the
\* listing title otherwise; its image is the joined gallery when the gallery
\* is not empty and the listing image otherwise; its category is the joined
\* detail categories, empty when there are none.
C19_DetailPreferred ==
  (arg.kind = "rows" /\ res.done) =>
    \A i \in DOMAIN res.val :
      LET r == res.val[i]
          pd == arg.pd
          card == arg.card
      IN  /\ r.product_name =
               (IF pd.product_name # EmptyStr THEN pd.product_name
                ELSE card.listing_title)
          /\ r.product_image =
               (IF pd.product_image_urls # <<>> THEN <<"g1", ", ", "g2">>
                ELSE card.product_img)
          /\ r.category =
               (IF pd.product_categories # <<>> THEN <<"cat1", ", ", "cat2">>
                ELSE EmptyStr)

C19_Witness ==
  /\ arg.kind = "rows" /\ res.done
  /\ arg.pd.product_name = EmptyStr
  /\ arg.pd.product_image_urls = <<>>
  /\ arg.card.listing_title = Str("title")
  /\ res.val[1].product_name = Str("title")
  /\ res.val[1].product_image = Str("src")
  /\ res.val[1].category = EmptyStr

\* ================================================ claims on safe_get, 2
RECURSIVE SumSeq(_)
SumSeq(s) == IF s = <<>> THEN 0 ELSE Head(s) + SumSeq(Tail(s))

\* C20: with a probe, every probe timeout issues window.stop() before anything
\* else; after a failed attempt k that is not the last the sleep is
\* min(2k, 4) (2 after attempt 1, 4 after every later one), then attempt k+1
\* starts; after the last attempt false is returned without a sleep, so three
\* attempts sleep 6 at most.
C20_BackoffSchedule ==
  [][ (sg.ready /\ sg.tries >= 1) =>
        /\ (sg'.timeouts # sg.timeouts) =>
             /\ sg'.stops = sg.stops + 1
             /\ sg'.sleeps = sg.sleeps
             /\ (sg.attempt = sg.tries) =>
                  (sg'.result = "false" /\ pc' = "sg_ret")
             /\ (sg.attempt < sg.tries) => pc' = "sg_sleep"
        /\ (pc = "sg_sleep") =>
             /\ sg.attempt < sg.tries
             /\ sg'.sleeps =
                  Append(sg.sleeps, IF sg.attempt = 1 THEN 2 ELSE 4)
             /\ sg'.attempt = sg.attempt + 1
             /\ pc' = "sg_get"
        /\ (pc # "sg_sleep") => sg'.sleeps = sg.sleeps
        /\ Len(sg'.sleeps) = sg'.attempt - 1
        /\ (sg'.tries = Tries) => SumSeq(sg'.sleeps) <= 6
    ]_vars

C20_Witness ==
  /\ pc = "sg_ret"
  /\ sg.ready
  /\ sg.tries = Tries
  /\ sg.result = "false"
  /\ sg.sleeps = <<2, 4>>
  /\ sg.stops >= sg.timeouts


\* C21: a navigation timeout is no failure by itself: window.stop() is issued
\* and the same attempt goes on; with a probe the probe is still awaited and
\* true is returned when it appears; without a probe true is returned after
\* exactly one navigation, with no probe wait, no sleep and no retry.
C21_LoadTimeoutGoesOn ==
  [][ /\ (sg'.navTimeouts # sg.navTimeouts) =>
           /\ sg'.stops = sg.stops + 1
           /\ sg'.navs = sg.navs + 1
           /\ sg'.attempt = sg.attempt
           /\ sg'.timeouts = sg.timeouts
           /\ sg'.sleeps = sg.sleeps
           /\ sg.ready => (pc' = "sg_probe" /\ sg'.result = "none")
           /\ ~sg.ready => (pc' = "sg_ret" /\ sg'.result = "true")
      /\ (pc = "sg_probe" /\ sg'.timeouts = sg.timeouts) =>
           (pc' = "sg_ret" /\ sg'.result = "true")
      /\ (~sg.ready /\ sg'.result = "true") =>
           /\ sg'.navs = 1
           /\ sg'.attempt = 1
           /\ sg'.timeouts = 0
           /\ sg'.sleeps = <<>>
      /\ sg'.stops = sg'.navTimeouts + sg'.timeouts
    ]_vars

\* C21 witness: the only navigation timed out, the probe appeared, true
C21_Witness ==
  /\ pc = "sg_ret"
  /\ sg.ready
  /\ sg.result = "true"
  /\ sg.navs = 1
  /\ sg.navTimeouts = 1
  /\ sg.stops = 1
  /\ sg.timeouts = 0


\* the lookups of a card that raise: a stale card, or a missing anchor,
\* image, title or price node
CardRaises(c) ==
  c.stale \/ ~c.anchor.present \/ ~c.img.present \/ ~c.title.present
    \/ ~c.price.present

NotRaising(doms) == SelectSeq(doms, LAMBDA c : ~CardRaises(c))

\* C22: the records extract_listing_cards returns are, in document order,
\* those of the cards that raise no structural error, each the record the
\* card gives by itself; removing a card changes no sibling's record.
C22_PerCardIsolation ==
  (arg.kind = "listing" /\ res.done) =>
    LET ok == NotRaising(arg.cards) IN
    /\ ~arg.container => res.val = <<>>
    /\ arg.container =>
         /\ Len(res.val) = Len(ok)
         /\ \A i \in DOMAIN ok :
              /\ res.val[i].listing_title = ok[i].title.text
              /\ res.val[i] = extract_card(ok[i]).rec
         /\ \A j \in DOMAIN arg.cards :
              LET rest == extract_listing_cards(TRUE, RemoveAt(arg.cards, j))
                  k == Len(NotRaising(SubSeq(arg.cards, 1, j)))
              IN  rest = IF CardRaises(arg.cards[j]) THEN res.val
                         ELSE RemoveAt(res.val, k)

C22_Witness ==
  /\ arg.kind = "listing" /\ res.done
  /\ arg.container
  /\ Len(arg.cards) = MaxListLen
  /\ ~CardRaises(arg.cards[1])
  /\ ~arg.cards[2].img.present
  /\ ~CardRaises(arg.cards[3])
  /\ Len(res.val) = MaxListLen - 1
  /\ res.val[1].listing_title = Str(1)
  /\ res.val[2].listing_title = Str(3)


\* C23: extract_listing_cards never emits an empty product_url: a card whose
\* link target is empty or cannot be read gets the site base URL, so the test
\* of line 497 skips no card and safe_get navigates to the base URL for it.
C23_NeverEmptyUrl ==
  [][ LET ok == NotRaising(arg.cards) IN
      /\ Len(cards) = Len(ok)
      /\ \A i \in DOMAIN cards :
           /\ cards[i].product_url # EmptyUrl
           /\ (get_attr(ok[i].anchor) = EmptyUrl) =>
                cards[i].product_url = BaseUrl
      /\ (pc = "card_loop" /\ idx <= Len(cards)) =>
           /\ pc' = "sg_get"
           /\ idx' = idx
           /\ sg'.target = "pdp"
           /\ sg'.url = cards[idx].product_url
      /\ (pc = "sg_get" /\ sg.attempt <= sg.tries) =>
           (sg'.navs = sg.navs + 1 /\ sg'.url = sg.url)
    ]_vars

\* C23 witness: the href of the first card could not be read and the product
\* page navigation went to the base URL
C23_Witness ==
  /\ pc = "sg_probe"
  /\ idx = 1
  /\ ~CardRaises(arg.cards[1])
  /\ ~arg.cards[1].anchor.readable
  /\ sg.target = "pdp"
  /\ sg.url = BaseUrl
  /\ sg.navs = 1


\* C24: the header write at the start of a run discards the rows out_csv
\* held: after it the file is the header alone, no page has been requested
\* yet, and a run that appends nothing ends with the header alone.
C24_EarlierRowsDiscarded ==
  [][ /\ (pc = "header" /\ pc' = "page_loop") =>
           /\ file' = <<HEADER>>
           /\ sg = SgIdle /\ sg' = SgIdle
           /\ cards' = <<>>
           /\ page' = StartPage
      /\ (pc' \in {"sg_get", "sg_probe", "sg_sleep", "sg_ret"}) =>
           headerWrites' = 1
      /\ (headerWrites' = 1) =>
           /\ OldRow \notin Range(file')
           /\ file' = <<HEADER>> \o sinkLog'
    ]_vars

\* C24 witness: the file held two rows of an earlier run and the run ended
\* normally without appending anything
C24_Witness ==
  /\ pc = "done"
  /\ exc = NoExc
  /\ arg.kind = "run"
  /\ arg.found = <<HEADER, OldRow, OldRow>>
  /\ headerWrites = 1
  /\ sinkLog = <<>>
  /\ file = <<HEADER>>

====
